---------------------------- MODULE Spec2Model ----------------------------
(***************************************************************************)
(* Model of the xhshow payload and digest engine:                          *)
(*   - CryptoProcessor (src/xhshow/core/crypto.py): the little-endian      *)
(*     codec, the 32-bit rotation, the digest mixer _custom_hash_v2 and    *)
(*     the 144-byte payload builder build_payload_array;                   *)
(*   - SessionManager (src/xhshow/session.py): the session counters and    *)
(*     the snapshots get_current_state returns, serialized and with two    *)
(*     interleaved callers.                                                *)
(*                                                                         *)
(* Python integers are unbounded.  An integer v is held as the pair        *)
(* <<hi, lo>> with v = hi * 65536 + lo and lo in 0..65535 (hi may be       *)
(* negative or exceed 16 bits), so that 32-bit words, values above 2^32    *)
(* and millisecond timestamps are all exact.                               *)
(***************************************************************************)
EXTENDS Integers, Sequences, FiniteSets, TLC

VARIABLES
    hIn,        \* digest mixer: the input byte list
    hOut,       \* digest mixer: the returned byte list (<<>> before the call)
    hTrace,     \* digest mixer: (s0,s1,s2,s3) after the length fold and after each block
    hpc,        \* digest mixer: "idle" | "done"
    pArgs,      \* payload builder: the arguments of the call
    pDraws,     \* payload builder: the random draws the call consumed
    pRes,       \* payload builder: outcome of the call
    ppc,        \* payload builder: "idle" | "done"
    sm,         \* SessionManager fields
    returned,   \* SignState values returned so far, oldest first
    smInit,     \* the SessionManager fields right after construction
    lastCall,   \* the last get_current_state call: counters before it, steps drawn, uri
    th,         \* concurrent callers: per-thread position and locals
    overlapped  \* concurrent callers: TRUE once a call ran while another was in progress

hvars == <<hIn, hOut, hTrace, hpc>>
pvars == <<pArgs, pDraws, pRes, ppc>>
svars == <<sm, returned, smInit, lastCall>>
cvars == <<th, overlapped>>
vars == <<hvars, pvars, svars, cvars>>

-----------------------------------------------------------------------------
(* Bounds of the model *)

\* largest number of 8-byte blocks of an enumerated digest-mixer input
MaxBlocks == 2
\* number of 8-byte blocks of the one long digest-mixer input
LongBlocks == 32
\* random draws from [a, b] are taken from the DrawSpread+1 lowest and highest values
DrawSpread == 1
\* number of serialized get_current_state calls explored
MaxCalls == 2

-----------------------------------------------------------------------------
(* Python integers and bitwise operators *)

Pow2(n) == 2 ^ n

RECURSIVE BitXor(_, _)
BitXor(a, b) ==
    IF a = 0 THEN b
    ELSE IF b = 0 THEN a
    ELSE (((a % 2) + (b % 2)) % 2) + 2 * BitXor(a \div 2, b \div 2)

RECURSIVE BitOr(_, _)
BitOr(a, b) ==
    IF a = 0 THEN b
    ELSE IF b = 0 THEN a
    ELSE (IF (a % 2) = 1 \/ (b % 2) = 1 THEN 1 ELSE 0) + 2 * BitOr(a \div 2, b \div 2)

\* the pair of a small integer
ToPy(n) == <<n \div 65536, n % 65536>>

\* a ^ b on non-negative integers
PyXor(a, b) == <<BitXor(a[1], b[1]), BitXor(a[2], b[2])>>

\* a | b on non-negative integers
PyOr(a, b) == <<BitOr(a[1], b[1]), BitOr(a[2], b[2])>>

\* n << k for a small non-negative n
PyShl(n, k) ==
    IF k >= 16 THEN <<n * Pow2(k - 16), 0>>
    ELSE <<(n * Pow2(k)) \div 65536, (n * Pow2(k)) % 65536>>

MAX_32BIT == <<65535, 65535>>

\* a & MAX_32BIT
Mask32(a) == <<a[1] % 65536, a[2]>>

\* (a + b) & MAX_32BIT
AddMask32(a, b) ==
    LET lo == a[2] + b[2]
    IN  <<(a[1] + b[1] + lo \div 65536) % 65536, lo % 65536>>

\* (val << n) & MAX_32BIT, 1 <= n <= 31
ShlMask32(val, n) ==
    IF n >= 16 THEN <<(val[2] % Pow2(32 - n)) * Pow2(n - 16), 0>>
    ELSE <<(val[1] % Pow2(16 - n)) * Pow2(n) + val[2] \div Pow2(16 - n),
           (val[2] % Pow2(16 - n)) * Pow2(n)>>

\* (val >> m) & MAX_32BIT, 1 <= m <= 31
ShrMask32(val, m) ==
    IF m >= 16
    THEN LET v == val[1] \div Pow2(m - 16) IN <<(v \div 65536) % 65536, v % 65536>>
    ELSE <<(val[1] \div Pow2(m)) % 65536,
           (val[1] % Pow2(m)) * Pow2(16 - m) + val[2] \div Pow2(m)>>

InWord32(a) == a[1] \in 0..65535 /\ a[2] \in 0..65535

-----------------------------------------------------------------------------
(* CryptoProcessor: codec and digest mixer *)

\* ((val << n) | (val >> (32 - n))) & MAX_32BIT
rotate_left(val, n) == PyOr(ShlMask32(val, n), ShrMask32(val, 32 - n))

\* arr.append(val & 0xFF); val >>= 8, `length' times
RECURSIVE int_to_le_bytes(_, _)
int_to_le_bytes(val, length) ==
    IF length = 0 THEN <<>>
    ELSE <<val[2] % 256>> \o
         int_to_le_bytes(<<val[1] \div 256, (val[1] % 256) * 256 + val[2] \div 256>>,
                         length - 1)

HASH_IV == << <<27947, 31221>>, <<7047, 13715>>, <<34283, 51819>>, <<49842, 44597>> >>

\* struct.unpack("<II", bytes(b)): two little-endian 32-bit words of an 8-byte block
UnpackII(b) ==
    << <<b[3] + 256 * b[4], b[1] + 256 * b[2]>>,
       <<b[7] + 256 * b[8], b[5] + 256 * b[6]>> >>

\* s0 ^= length; s1 ^= length << 8; s2 ^= length << 16; s3 ^= length << 24
HashFold(length) ==
    << PyXor(HASH_IV[1], ToPy(length)),
       PyXor(HASH_IV[2], PyShl(length, 8)),
       PyXor(HASH_IV[3], PyShl(length, 16)),
       PyXor(HASH_IV[4], PyShl(length, 24)) >>

\* one iteration of the block loop
HashRound(s, v) ==
    LET s0 == rotate_left(PyXor(AddMask32(s[1], v[1]), s[3]), 7)
        s1 == rotate_left(AddMask32(PyXor(v[1], s[2]), s[4]), 11)
        s2 == rotate_left(PyXor(AddMask32(s[3], v[2]), s0), 13)
        s3 == rotate_left(AddMask32(PyXor(s[4], v[2]), s1), 17)
    IN  <<s0, s1, s2, s3>>

\* the states after the fold and after each of the length // 8 blocks
RECURSIVE HashStates(_, _, _)
HashStates(input_bytes, i, acc) ==
    IF i >= Len(input_bytes) \div 8 THEN acc
    ELSE HashStates(input_bytes, i + 1,
             Append(acc, HashRound(acc[Len(acc)],
                                   UnpackII(SubSeq(input_bytes, i * 8 + 1, (i + 1) * 8)))))

\* t0..t3, the four rotations and the final mix
HashFinal(s, length) ==
    LET t0 == PyXor(s[1], ToPy(length))
        t1 == PyXor(s[2], t0)
        t2 == AddMask32(s[3], t1)
        t3 == PyXor(s[4], t2)
        rot_t0 == rotate_left(t0, 9)
        rot_t1 == rotate_left(t1, 13)
        rot_t2 == rotate_left(t2, 17)
        rot_t3 == rotate_left(t3, 19)
        f0 == AddMask32(rot_t0, rot_t2)
        f1 == PyXor(rot_t1, rot_t3)
        f2 == AddMask32(rot_t2, f0)
        f3 == PyXor(rot_t3, f1)
    IN  <<f0, f1, f2, f3>>

HashTraceOf(input_bytes) ==
    HashStates(input_bytes, 0, <<HashFold(Len(input_bytes))>>)

custom_hash_v2(input_bytes) ==
    LET tr == HashTraceOf(input_bytes)
        f  == HashFinal(tr[Len(tr)], Len(input_bytes))
    IN  int_to_le_bytes(f[1], 4) \o int_to_le_bytes(f[2], 4) \o
        int_to_le_bytes(f[3], 4) \o int_to_le_bytes(f[4], 4)

-----------------------------------------------------------------------------
(* Strings: a str is the sequence of its code points *)

Rep(n, c) == [i \in 1..n |-> c]

Min(a, b) == IF a < b THEN a ELSE b

\* the UTF-8 bytes of one code point
Utf8Char(c) ==
    IF c < 128 THEN <<c>>
    ELSE IF c < 2048 THEN <<192 + c \div 64, 128 + (c % 64)>>
    ELSE IF c < 65536
         THEN <<224 + c \div 4096, 128 + ((c \div 64) % 64), 128 + (c % 64)>>
    ELSE <<240 + c \div 262144, 128 + ((c \div 4096) % 64),
           128 + ((c \div 64) % 64), 128 + (c % 64)>>

\* s.encode("utf-8")
RECURSIVE Utf8Encode(_)
Utf8Encode(s) ==
    IF s = <<>> THEN <<>> ELSE Utf8Char(Head(s)) \o Utf8Encode(Tail(s))

\* s.find(ch): the 0-based index of the first occurrence, -1 when there is none
FindChar(s, ch) ==
    IF \E i \in 1..Len(s) : s[i] = ch
    THEN (CHOOSE i \in 1..Len(s) : s[i] = ch /\ \A j \in 1..(i - 1) : s[j] # ch) - 1
    ELSE -1

\* url_utils.extract_api_path: cut at the first "{" (123) or "?" (63)
extract_api_path(uri_with_data) ==
    LET brace_pos == FindChar(uri_with_data, 123)
        question_pos == FindChar(uri_with_data, 63)
    IN  IF brace_pos # -1 /\ question_pos # -1
        THEN SubSeq(uri_with_data, 1, Min(brace_pos, question_pos))
        ELSE IF brace_pos # -1 THEN SubSeq(uri_with_data, 1, brace_pos)
        ELSE IF question_pos # -1 THEN SubSeq(uri_with_data, 1, question_pos)
        ELSE uri_with_data

IsHexDigit(c) == c \in 48..57 \/ c \in 97..102 \/ c \in 65..70

HexValue(c) == IF c \in 48..57 THEN c - 48 ELSE IF c \in 97..102 THEN c - 87 ELSE c - 55

\* the characters bytes.fromhex skips between two bytes
IsAsciiSpace(c) == c \in {9, 10, 11, 12, 13, 32}

\* bytes.fromhex(s): <<TRUE, bytes>>, or <<FALSE, <<>>>> for the ValueError
RECURSIVE FromHexAt(_, _, _)
FromHexAt(s, i, acc) ==
    IF i > Len(s) THEN <<TRUE, acc>>
    ELSE IF IsAsciiSpace(s[i]) THEN FromHexAt(s, i + 1, acc)
    ELSE IF i + 1 > Len(s) \/ ~IsHexDigit(s[i]) \/ ~IsHexDigit(s[i + 1])
         THEN <<FALSE, <<>>>>
    ELSE FromHexAt(s, i + 2, Append(acc, 16 * HexValue(s[i]) + HexValue(s[i + 1])))

bytes_fromhex(s) == FromHexAt(s, 1, <<>>)

\* hashlib.md5(b).hexdigest() on the paths the model's requests have
Md5HexDigest(b) ==
    CASE b = <<>> ->
           <<100, 52, 49, 100, 56, 99, 100, 57, 56, 102, 48, 48, 98, 50, 48, 52,
             101, 57, 56, 48, 48, 57, 57, 56, 101, 99, 102, 56, 52, 50, 55, 101>>
      [] b = <<47, 97, 112, 105, 47, 104, 111, 109, 101, 102, 101, 101, 100>> ->
           <<101, 57, 53, 51, 101, 52, 56, 97, 54, 49, 57, 50, 57, 97, 56, 99,
             100, 98, 55, 99, 51, 49, 100, 55, 56, 56, 54, 99, 54, 97, 53, 53>>
      [] b = <<47, 97>> ->
           <<48, 54, 51, 57, 55, 54, 55, 102, 51, 101, 57, 101, 97, 97, 100, 55,
             50, 57, 98, 53, 52, 48, 51, 55, 97, 55, 101, 50, 97, 98, 102, 53>>
      [] b = <<47, 195, 169>> ->
           <<57, 98, 102, 57, 51, 98, 98, 56, 102, 55, 49, 100, 52, 97, 55, 57,
             100, 97, 49, 102, 102, 57, 48, 52, 99, 55, 57, 101, 50, 52, 49, 48>>

\* [int(hex_md5[i : i + 2], 16) for i in range(0, 32, 2)]
HexPairs(hex_md5) ==
    [k \in 1..16 |-> 16 * HexValue(hex_md5[2 * k - 1]) + HexValue(hex_md5[2 * k])]

-----------------------------------------------------------------------------
(* CryptoConfig *)

VERSION_BYTES == <<121, 104, 96, 41>>
PAYLOAD_LENGTH == 144
A1_LENGTH == 52
APP_ID_LENGTH == 10
MD5_XOR_LENGTH == 8
A3_PREFIX == <<2, 97, 51, 16>>
TIMESTAMP_LE_LENGTH == 8
SEQUENCE_VALUE_MIN == 15
SEQUENCE_VALUE_MAX == 50
WINDOW_PROPS_LENGTH_MIN == 1000
WINDOW_PROPS_LENGTH_MAX == 1200
SESSION_WINDOW_PROPS_INIT_MIN == 1000
SESSION_WINDOW_PROPS_INIT_MAX == 2000
SESSION_SEQUENCE_INIT_MIN == 15
SESSION_SEQUENCE_INIT_MAX == 17
SESSION_SEQUENCE_STEP_MIN == 0
SESSION_SEQUENCE_STEP_MAX == 1
SESSION_WINDOW_PROPS_STEP_MIN == 1
SESSION_WINDOW_PROPS_STEP_MAX == 10
ENV_TABLE == <<115, 248, 83, 102, 103, 201, 181, 131, 99, 94, 4, 68, 250, 132, 21>>
ENV_CHECKS_DEFAULT == <<0, 1, 18, 1, 0, 0, 0, 0, 0, 0, 3, 0, 0, 0, 0>>
ENV_FINGERPRINT_TIME_OFFSET_MIN == 10
ENV_FINGERPRINT_TIME_OFFSET_MAX == 50

-----------------------------------------------------------------------------
(* CryptoProcessor.build_payload_array *)

\* int(timestamp * 1000) for a timestamp of whole seconds
MsOf(timestamp) ==
    LET low == (timestamp % 65536) * 1000
    IN  <<(timestamp \div 65536) * 1000 + low \div 65536, low % 65536>>

\* b[:n]
Take(b, n) == SubSeq(b, 1, Min(n, Len(b)))

\* b.ljust(n, b"\x00")
LJust(b, n) == IF Len(b) >= n THEN b ELSE b \o Rep(n - Len(b), 0)

\* variant: a SignState counts as absent when all its fields are 0
TruthyIfAnyFieldSet(sign_state) ==
    sign_state # <<>> /\ \E k \in 1..Len(sign_state[1]) : sign_state[1][k] # <<0, 0>>

\* `if sign_state:' -- None is false, a tuple is true unless it is empty.
\* The optional argument is <<>> for None and <<state>> for a SignState.
Truthy(sign_state) == sign_state # <<>> /\ Len(sign_state[1]) # 0

\* the four fields of the SignState branch; a SignState is
\* <<page_load_timestamp, sequence_value, window_props_length, uri_length>>
SessionFields(sign_state) ==
    int_to_le_bytes(sign_state[1], TIMESTAMP_LE_LENGTH) \o
    int_to_le_bytes(sign_state[2], 4) \o
    int_to_le_bytes(sign_state[3], 4) \o
    int_to_le_bytes(sign_state[4], 4)

\* variant: the secondary timestamp written with the 4-byte default width
RandomFieldsShortTs(timestamp, string_param, draws) ==
    int_to_le_bytes(MsOf(timestamp - draws.time_offset), 4) \o
    int_to_le_bytes(ToPy(draws.sequence_value), 4) \o
    int_to_le_bytes(ToPy(draws.window_props_length), 4) \o
    int_to_le_bytes(ToPy(Len(Utf8Encode(string_param))), 4)

\* the four fields of the branch without a SignState
RandomFields(timestamp, string_param, draws) ==
    int_to_le_bytes(MsOf(timestamp - draws.time_offset), TIMESTAMP_LE_LENGTH) \o
    int_to_le_bytes(ToPy(draws.sequence_value), 4) \o
    int_to_le_bytes(ToPy(draws.window_props_length), 4) \o
    int_to_le_bytes(ToPy(Len(Utf8Encode(string_param))), 4)

\* variant: the md5 bytes copied without the XOR
Md5XorBlockNoSeed(md5_bytes, seed_byte) ==
    [i \in 1..MD5_XOR_LENGTH |-> md5_bytes[i]]

\* [md5_bytes[i] ^ seed_byte for i in range(MD5_XOR_LENGTH)]
Md5XorBlock(md5_bytes, seed_byte) ==
    [i \in 1..MD5_XOR_LENGTH |-> BitXor(md5_bytes[i], seed_byte)]

\* variant: the length byte taken before truncation and padding
LengthPrefixedRawLength(value, width) ==
    LET encoded == Utf8Encode(value)
    IN  <<Len(encoded)>> \o LJust(Take(encoded, width), width)

\* value.encode("utf-8")[:width].ljust(width, b"\x00"), preceded by its length
LengthPrefixed(value, width) ==
    LET field == LJust(Take(Utf8Encode(value), width), width)
    IN  <<Len(field)>> \o field

\* part11
EnvBlock(seed_byte) ==
    <<1, BitXor(seed_byte, ENV_TABLE[1])>> \o
    [i \in 1..14 |-> BitXor(ENV_TABLE[i + 1], ENV_CHECKS_DEFAULT[i + 1])]

\* A3_PREFIX + [b ^ seed_byte for b in _custom_hash_v2(ts_bytes + md5_path_bytes)]
A3Block(ts_bytes, string_param, seed_byte) ==
    LET api_path == extract_api_path(string_param)
        hex_md5 == Md5HexDigest(Utf8Encode(api_path))
        md5_path_bytes == HexPairs(hex_md5)
        digest == custom_hash_v2(ts_bytes \o md5_path_bytes)
    IN  A3_PREFIX \o [k \in 1..Len(digest) |-> BitXor(digest[k], seed_byte)]

\* The call: `status' is "ok" or the exception raised, `payload' the list returned,
\* `built' the length the local list `payload' had when the call ended.
build_payload_array(args, draws) ==
    LET seed_byte == draws.seed[2] % 256
        ts_bytes == int_to_le_bytes(MsOf(args.timestamp), TIMESTAMP_LE_LENGTH)
        head == VERSION_BYTES \o int_to_le_bytes(draws.seed, 4) \o ts_bytes \o
                (IF Truthy(args.sign_state)
                 THEN SessionFields(args.sign_state[1])
                 ELSE RandomFields(args.timestamp, args.string_param, draws))
        md5 == bytes_fromhex(args.hex_parameter)
    IN  IF ~md5[1]
        THEN [status |-> "ValueError", payload |-> <<>>, built |-> Len(head)]
        ELSE IF Len(md5[2]) < MD5_XOR_LENGTH
        THEN [status |-> "IndexError", payload |-> <<>>, built |-> Len(head)]
        ELSE LET all == head \o Md5XorBlock(md5[2], seed_byte) \o
                        LengthPrefixed(args.a1_value, A1_LENGTH) \o
                        LengthPrefixed(args.app_identifier, APP_ID_LENGTH) \o
                        EnvBlock(seed_byte) \o
                        A3Block(ts_bytes, args.string_param, seed_byte)
             IN  [status |-> "ok", payload |-> all, built |-> Len(all)]

\* RandomGenerator.generate_random_int: an unsigned 32-bit seed
generate_random_int == {<<0, 0>>, <<0, 255>>, <<43981, 4660>>}

\* RandomGenerator.generate_random_byte_in_range(lo, hi): inclusive, the two ends drawn
generate_random_byte_in_range(lo, hi) == {lo, hi}

(* The arguments the model calls build_payload_array with *)

HexParameters ==
    { \* "0123456789abcdefFEDCBA9876543210"
      <<48, 49, 50, 51, 52, 53, 54, 55, 56, 57, 97, 98, 99, 100, 101, 102,
        70, 69, 68, 67, 66, 65, 57, 56, 55, 54, 53, 52, 51, 50, 49, 48>>,
      \* "ffeeddccbbaa9988"
      <<102, 102, 101, 101, 100, 100, 99, 99, 98, 98, 97, 97, 57, 57, 56, 56>>,
      \* "0123456789abcdefFEDCBA9876543210ab"
      <<48, 49, 50, 51, 52, 53, 54, 55, 56, 57, 97, 98, 99, 100, 101, 102,
        70, 69, 68, 67, 66, 65, 57, 56, 55, 54, 53, 52, 51, 50, 49, 48, 97, 98>>,
      \* "0123456789abcd"
      <<48, 49, 50, 51, 52, 53, 54, 55, 56, 57, 97, 98, 99, 100>>,
      \* "0123456789abcdefFEDCBA987654321"
      <<48, 49, 50, 51, 52, 53, 54, 55, 56, 57, 97, 98, 99, 100, 101, 102,
        70, 69, 68, 67, 66, 65, 57, 56, 55, 54, 53, 52, 51, 50, 49>>,
      \* "0123456789abcdefFEDCg5A987654321"
      <<48, 49, 50, 51, 52, 53, 54, 55, 56, 57, 97, 98, 99, 100, 101, 102,
        70, 69, 68, 67, 103, 53, 65, 57, 56, 55, 54, 53, 52, 51, 50, 49>>,
      \* "00 11 22 33 44 55 66 77 88 99 aa"
      <<48, 48, 32, 49, 49, 32, 50, 50, 32, 51, 51, 32, 52, 52, 32, 53,
        53, 32, 54, 54, 32, 55, 55, 32, 56, 56, 32, 57, 57, 32, 97, 97>> }

A1Values ==
    { <<97, 98, 99>>,               \* "abc"
      Rep(51, 97) \o <<233>>,       \* 51 "a" and one two-byte character: 53 bytes
      Rep(18, 20013) }              \* 18 three-byte characters: 54 bytes

AppIdentifiers ==
    { <<120, 104, 115, 45, 112, 99, 45, 119, 101, 98>>,                \* "xhs-pc-web"
      <<120, 104, 115, 45, 112, 99, 45, 119, 101, 98, 45, 118, 50>> }  \* "xhs-pc-web-v2"

StringParams ==
    { <<>>,
      \* /api/homefeed?num=47
      <<47, 97, 112, 105, 47, 104, 111, 109, 101, 102, 101, 101, 100, 63,
        110, 117, 109, 61, 52, 55>>,
      \* /a{"q":"?"}
      <<47, 97, 123, 34, 113, 34, 58, 34, 63, 34, 125>>,
      \* /e-acute?a{
      <<47, 233, 63, 97, 123>> }

\* whole seconds: the epoch and 2024-11-04T18:40:00Z
Timestamps == {0, 1730745600}

\* None, the all-zero SignState, a usual one, and one whose fields exceed their widths
SignStates ==
    { <<>>,
      << << <<0, 0>>, <<0, 0>>, <<0, 0>>, <<0, 0>> >> >>,
      << << <<26409082, 2171>>, <<0, 16>>, <<0, 1500>>, <<0, 20>> >> >>,
      << << <<-1, 65535>>, <<65536, 5>>, <<-1, 65535>>, <<1, 4464>> >> >> }

NoArgs ==
    [hex_parameter |-> <<>>, a1_value |-> <<>>, app_identifier |-> <<>>,
     string_param |-> <<>>, timestamp |-> 0, sign_state |-> <<>>]

NoDraws ==
    [seed |-> <<0, 0>>, time_offset |-> -1, sequence_value |-> -1,
     window_props_length |-> -1]

NoResult == [status |-> "none", payload |-> <<>>, built |-> 0]

PayloadIdle == pArgs = NoArgs /\ pDraws = NoDraws /\ pRes = NoResult /\ ppc = "idle"

\* one call of build_payload_array
PayloadCall ==
    /\ ppc = "idle"
    /\ \E hex \in HexParameters, a1 \in A1Values, app \in AppIdentifiers,
          sp \in StringParams, ts \in Timestamps, ss \in SignStates,
          seed \in generate_random_int :
         LET args == [hex_parameter |-> hex, a1_value |-> a1, app_identifier |-> app,
                      string_param |-> sp, timestamp |-> ts, sign_state |-> ss]
         IN  \E off \in IF Truthy(ss) THEN {-1}
                        ELSE generate_random_byte_in_range(ENV_FINGERPRINT_TIME_OFFSET_MIN,
                                                           ENV_FINGERPRINT_TIME_OFFSET_MAX),
                sq \in IF Truthy(ss) THEN {-1}
                       ELSE generate_random_byte_in_range(SEQUENCE_VALUE_MIN,
                                                          SEQUENCE_VALUE_MAX),
                wp \in IF Truthy(ss) THEN {-1}
                       ELSE generate_random_byte_in_range(WINDOW_PROPS_LENGTH_MIN,
                                                          WINDOW_PROPS_LENGTH_MAX) :
               LET draws == [seed |-> seed, time_offset |-> off, sequence_value |-> sq,
                             window_props_length |-> wp]
               IN  /\ pArgs' = args
                   /\ pDraws' = draws
                   /\ pRes' = build_payload_array(args, draws)
    /\ ppc' = "done"
    /\ UNCHANGED <<hvars, svars, cvars>>

\* the caller drops the result; the processor keeps no state between calls
PayloadReset ==
    /\ ppc = "done"
    /\ pArgs' = NoArgs /\ pDraws' = NoDraws /\ pRes' = NoResult /\ ppc' = "idle"
    /\ UNCHANGED <<hvars, svars, cvars>>

-----------------------------------------------------------------------------
(* Calls of the digest mixer *)

HashBlocks == {Rep(8, 0), Rep(8, 255), <<255, 1, 2, 3, 4, 5, 6, 129>>}

\* the concatenation of a sequence of 8-byte blocks
Flatten(blocks) ==
    [i \in 1..(8 * Len(blocks)) |-> blocks[((i - 1) \div 8) + 1][((i - 1) % 8) + 1]]

\* up to MaxBlocks blocks followed by 0..7 more bytes, and one input of LongBlocks blocks
HashInputs ==
    { Flatten(blocks) \o Rep(t, 165) :
        blocks \in UNION {[1..n -> HashBlocks] : n \in 0..MaxBlocks}, t \in 0..7 }
    \cup {Rep(8 * LongBlocks, 7)}

NoHashResult == [status |-> "none", value |-> <<>>]

HashIdle == hIn = <<>> /\ hOut = NoHashResult /\ hTrace = <<>> /\ hpc = "idle"

\* one call of _custom_hash_v2; the function has no raise statement and no check
\* of len(input_bytes), so every call returns
HashCall ==
    /\ hpc = "idle"
    /\ \E input_bytes \in HashInputs :
         /\ hIn' = input_bytes
         /\ hTrace' = HashTraceOf(input_bytes)
         /\ hOut' = [status |-> "returned", value |-> custom_hash_v2(input_bytes)]
    /\ hpc' = "done"
    /\ UNCHANGED <<pvars, svars, cvars>>

HashReset ==
    /\ hpc = "done"
    /\ hIn' = <<>> /\ hOut' = NoHashResult /\ hTrace' = <<>> /\ hpc' = "idle"
    /\ UNCHANGED <<pvars, svars, cvars>>

-----------------------------------------------------------------------------
(* SessionManager *)

\* random.randint(a, b): inclusive; the DrawSpread + 1 lowest and highest values
RandInt(a, b) == {x \in a..b : x - a <= DrawSpread \/ b - x <= DrawSpread}

\* int(time.time() * 1000) at construction: 2024-11-04T18:40:00.123Z
PageLoadTimes == { <<26409082, 2171>> }

Uris ==
    { <<47, 97, 112, 105, 47, 104, 111, 109, 101, 102, 101, 101, 100>>,  \* /api/homefeed
      <<47, 233>> }                                                      \* /e-acute

\* SessionManager.__init__: the fields a new SessionManager can have
SessionManagers ==
    [page_load_timestamp : PageLoadTimes,
     sequence_value : RandInt(SESSION_SEQUENCE_INIT_MIN, SESSION_SEQUENCE_INIT_MAX),
     window_props_length : RandInt(SESSION_WINDOW_PROPS_INIT_MIN,
                                   SESSION_WINDOW_PROPS_INIT_MAX)]

SeqSteps == RandInt(SESSION_SEQUENCE_STEP_MIN, SESSION_SEQUENCE_STEP_MAX)

WplSteps == RandInt(SESSION_WINDOW_PROPS_STEP_MIN, SESSION_WINDOW_PROPS_STEP_MAX)

\* variant: window_props_length assigned the step instead of advanced by it
UpdateStateOverwrite(s, seq_step, wpl_step) ==
    [s EXCEPT !.sequence_value = @ + seq_step, !.window_props_length = wpl_step]

\* SessionManager.update_state with the two steps it draws
update_state(s, seq_step, wpl_step) ==
    [s EXCEPT !.sequence_value = @ + seq_step,
              !.window_props_length = @ + wpl_step]

\* variant: uri_length as the UTF-8 byte length, as the branch without SignState has it
SignStateByteLength(s, uri) ==
    <<s.page_load_timestamp, s.sequence_value, s.window_props_length,
      Len(Utf8Encode(uri))>>

\* the SignState get_current_state builds from the fields
SignState(s, uri) ==
    <<s.page_load_timestamp, s.sequence_value, s.window_props_length, Len(uri)>>

NoSession == [page_load_timestamp |-> <<0, 0>>, sequence_value |-> 0,
              window_props_length |-> 0]

NoCall == [before |-> NoSession, seq_step |-> 0, wpl_step |-> 0, uri |-> <<>>]

SessionIdle == sm = NoSession /\ smInit = NoSession /\ returned = <<>> /\ lastCall = NoCall

SessionInit ==
    /\ sm \in SessionManagers
    /\ smInit = sm
    /\ returned = <<>>
    /\ lastCall = NoCall

\* one serialized call of get_current_state(uri)
GetCurrentState ==
    /\ Len(returned) < MaxCalls
    /\ \E uri \in Uris, seq_step \in SeqSteps, wpl_step \in WplSteps :
         /\ sm' = update_state(sm, seq_step, wpl_step)
         /\ returned' = Append(returned, SignState(sm', uri))
         /\ lastCall' = [before |-> sm, seq_step |-> seq_step, wpl_step |-> wpl_step,
                         uri |-> uri]
    /\ UNCHANGED <<smInit, hvars, pvars, cvars>>

-----------------------------------------------------------------------------
(* Two threads calling get_current_state on one SessionManager.  The interpreter *)
(* may switch threads between the attribute load and the attribute store of      *)
(* each `+=', and between the attribute loads that build the SignState.          *)

Threads == {1, 2}

ConcUri == <<47, 97, 112, 105>>

NoThread == [pc |-> "start", tmp |-> 0, seq_step |-> 0, wpl_step |-> 0, snap_seq |-> 0]

ConcIdle == th = [t \in Threads |-> NoThread] /\ overlapped = FALSE

InCall(t) == th[t].pc \notin {"start", "done"}

Overlap(t) == overlapped \/ \E u \in Threads \ {t} : InCall(u)

\* variant: `=' in place of `+='
StoreWithoutLoad(loaded, step) == step

\* the value `self.x += step' stores, from the value loaded before the step was drawn
StoreValue(loaded, step) == loaded + step

\* self.sequence_value is loaded, then random.randint is called
LoadSeq(t) ==
    /\ th[t].pc = "start"
    /\ \E step \in SeqSteps :
         th' = [th EXCEPT ![t].pc = "store_seq", ![t].tmp = sm.sequence_value,
                          ![t].seq_step = step]
    /\ overlapped' = Overlap(t)
    /\ UNCHANGED <<sm, smInit, returned, lastCall, hvars, pvars>>

StoreSeq(t) ==
    /\ th[t].pc = "store_seq"
    /\ sm' = [sm EXCEPT !.sequence_value = StoreValue(th[t].tmp, th[t].seq_step)]
    /\ th' = [th EXCEPT ![t].pc = "load_wpl"]
    /\ overlapped' = Overlap(t)
    /\ UNCHANGED <<smInit, returned, lastCall, hvars, pvars>>

LoadWpl(t) ==
    /\ th[t].pc = "load_wpl"
    /\ \E step \in WplSteps :
         th' = [th EXCEPT ![t].pc = "store_wpl", ![t].tmp = sm.window_props_length,
                          ![t].wpl_step = step]
    /\ overlapped' = Overlap(t)
    /\ UNCHANGED <<sm, smInit, returned, lastCall, hvars, pvars>>

StoreWpl(t) ==
    /\ th[t].pc = "store_wpl"
    /\ sm' = [sm EXCEPT !.window_props_length = StoreValue(th[t].tmp, th[t].wpl_step)]
    /\ th' = [th EXCEPT ![t].pc = "snap_seq"]
    /\ overlapped' = Overlap(t)
    /\ UNCHANGED <<smInit, returned, lastCall, hvars, pvars>>

\* SignState(...): page_load_timestamp and sequence_value are loaded
SnapSeq(t) ==
    /\ th[t].pc = "snap_seq"
    /\ th' = [th EXCEPT ![t].pc = "snap_wpl", ![t].snap_seq = sm.sequence_value]
    /\ overlapped' = Overlap(t)
    /\ UNCHANGED <<sm, smInit, returned, lastCall, hvars, pvars>>

\* window_props_length is loaded and the SignState is returned
SnapWpl(t) ==
    /\ th[t].pc = "snap_wpl"
    /\ returned' = Append(returned,
                          SignState([sm EXCEPT !.sequence_value = th[t].snap_seq], ConcUri))
    /\ th' = [th EXCEPT ![t].pc = "done"]
    /\ overlapped' = Overlap(t)
    /\ UNCHANGED <<sm, smInit, lastCall, hvars, pvars>>

ConcInit ==
    /\ sm \in SessionManagers
    /\ smInit = sm
    /\ returned = <<>>
    /\ lastCall = NoCall
    /\ ConcIdle

-----------------------------------------------------------------------------
(* Specifications *)

\* calls of build_payload_array
Init == HashIdle /\ PayloadIdle /\ SessionIdle /\ ConcIdle

Next == PayloadCall \/ PayloadReset

Spec == Init /\ [][Next]_vars

\* calls of _custom_hash_v2
HashNext == HashCall \/ HashReset

SpecHash == Init /\ [][HashNext]_vars

\* one SessionManager, serialized calls
SessionSpecInit == HashIdle /\ PayloadIdle /\ SessionInit /\ ConcIdle

SessionNext == GetCurrentState

SpecSession == SessionSpecInit /\ [][SessionNext]_vars

\* one SessionManager, one call from each of two threads
ConcSpecInit == HashIdle /\ PayloadIdle /\ ConcInit

ConcNext ==
    \E t \in Threads :
        LoadSeq(t) \/ StoreSeq(t) \/ LoadWpl(t) \/ StoreWpl(t) \/ SnapSeq(t) \/ SnapWpl(t)

SpecConc == ConcSpecInit /\ [][ConcNext]_vars

-----------------------------------------------------------------------------
(* Properties *)

\* a 32-character hexadecimal string
IsValidMd5Hex(s) == Len(s) = 32 /\ \A i \in 1..Len(s) : IsHexDigit(s[i])

\* the 16-bit little-endian limbs a byte string decodes to
Decode16(bytes) == [k \in 1..(Len(bytes) \div 2) |-> bytes[2 * k - 1] + 256 * bytes[2 * k]]

\* the n 16-bit limbs of v modulo 2^(16 n)
RECURSIVE Limbs(_, _)
Limbs(v, n) == IF n = 0 THEN <<>> ELSE <<v[2]>> \o Limbs(ToPy(v[1]), n - 1)

Payload == pRes.payload

Built == ppc = "done" /\ pRes.status = "ok"

\* the arguments of the finished call with the SignState branch exchanged
OtherBranchArgs ==
    [pArgs EXCEPT !.sign_state =
        IF pArgs.sign_state = <<>>
        THEN << << <<26409082, 2171>>, <<0, 16>>, <<0, 1500>>, <<0, 20>> >> >>
        ELSE <<>>]

OtherBranchDraws ==
    [pDraws EXCEPT !.time_offset = ENV_FINGERPRINT_TIME_OFFSET_MIN,
                   !.sequence_value = SEQUENCE_VALUE_MAX,
                   !.window_props_length = WINDOW_PROPS_LENGTH_MIN]

\* C1: for a 32-character hex md5 and any other arguments build_payload_array
\* returns exactly 144 bytes with and without a SignState, and the two branches
\* differ only in the bytes at offsets 16-35.
C1_LengthInvariant ==
    (ppc = "done" /\ IsValidMd5Hex(pArgs.hex_parameter)) =>
        LET other == build_payload_array(OtherBranchArgs, OtherBranchDraws)
        IN  /\ pRes.status = "ok"
            /\ Len(Payload) = PAYLOAD_LENGTH
            /\ other.status = "ok"
            /\ Len(other.payload) = PAYLOAD_LENGTH
            /\ \A i \in (1..PAYLOAD_LENGTH) \ (17..36) : Payload[i] = other.payload[i]

\* C1 witness: a call without a SignState, with an identity longer than its field,
\* has returned.
C1_Witness ==
    /\ Built
    /\ IsValidMd5Hex(pArgs.hex_parameter)
    /\ pArgs.sign_state = <<>>
    /\ Len(Utf8Encode(pArgs.a1_value)) > A1_LENGTH

\* C2: every md5_hex that is not 32 hexadecimal characters (too short, too long,
\* or with a character that is no hex digit) makes the call fail and return no
\* payload; a call returns 144 bytes or nothing.
C2_InvalidMd5Rejected ==
    /\ (ppc = "done" /\ ~IsValidMd5Hex(pArgs.hex_parameter)) =>
          /\ pRes.status # "ok"
          /\ pRes.payload = <<>>
    /\ Built => Len(Payload) = PAYLOAD_LENGTH

\* C3: the digest mixer fails for every input whose length is not a multiple of 8
\* and returns no 16-byte result for it.
C3_UnalignedRejected ==
    (hpc = "done" /\ Len(hIn) % 8 # 0) =>
        /\ hOut.status # "returned"
        /\ Len(hOut.value) # 16

\* C4: in a fresh SessionManager's serialized calls, each returned SignState has
\* sequence_value and window_props_length at least those of every earlier one, and
\* every page_load_timestamp is the one fixed at construction.
C4_SessionMonotonic ==
    \A j \in 1..Len(returned) :
        /\ returned[j][1] = smInit.page_load_timestamp
        /\ \A i \in 1..(j - 1) :
              /\ returned[j][2] >= returned[i][2]
              /\ returned[j][3] >= returned[i][3]
              /\ returned[j][1] = returned[i][1]

\* C4 witness: two snapshots were returned and the sequence value did not move.
C4_Witness ==
    /\ Len(returned) >= 2
    /\ returned[2][2] = returned[1][2]
    /\ returned[2][3] > returned[1][3]

\* C5: with a SignState supplied, bytes 16-23, 24-27, 28-31 and 32-35 decode
\* little-endian to page_load_timestamp, sequence_value, window_props_length and
\* uri_length modulo the field width, whatever the fields' values.
C5_SnapshotPropagation ==
    (Built /\ pArgs.sign_state # <<>>) =>
        LET st == pArgs.sign_state[1]
        IN  /\ Decode16(SubSeq(Payload, 17, 24)) = Limbs(st[1], 4)
            /\ Decode16(SubSeq(Payload, 25, 28)) = Limbs(st[2], 2)
            /\ Decode16(SubSeq(Payload, 29, 32)) = Limbs(st[3], 2)
            /\ Decode16(SubSeq(Payload, 33, 36)) = Limbs(st[4], 2)

\* C5 witness: a payload was built from the SignState whose fields are all zero,
\* for a non-empty uri+body string.
C5_Witness ==
    /\ Built
    /\ pArgs.sign_state = << << <<0, 0>>, <<0, 0>>, <<0, 0>>, <<0, 0>> >> >>
    /\ pArgs.string_param # <<>>

\* C6: bytes 4-7 are the seed, little-endian; with payload[4] as the seed byte, the
\* md5 block XOR it gives the first 8 bytes of md5_hex, payload[109] XOR it gives
\* ENV_TABLE[0], and payload[128..143] XOR it give the digest of the primary
\* timestamp's 8 bytes followed by the 16 MD5 bytes of the API path.
C6_SeedConsistency ==
    Built =>
        LET seed_byte == Payload[5]
            md5 == bytes_fromhex(pArgs.hex_parameter)[2]
            path == Utf8Encode(extract_api_path(pArgs.string_param))
            digest == custom_hash_v2(SubSeq(Payload, 9, 16) \o HexPairs(Md5HexDigest(path)))
        IN  /\ Decode16(SubSeq(Payload, 5, 8)) = Limbs(pDraws.seed, 2)
            /\ seed_byte = pDraws.seed[2] % 256
            /\ Decode16(SubSeq(Payload, 9, 16)) = Limbs(MsOf(pArgs.timestamp), 4)
            /\ \A i \in 1..8 : BitXor(Payload[36 + i], seed_byte) = md5[i]
            /\ BitXor(Payload[110], seed_byte) = ENV_TABLE[1]
            /\ \A k \in 1..16 : BitXor(Payload[128 + k], seed_byte) = digest[k]

\* C6 witness: a payload was built with a seed whose low byte is not zero.
C6_Witness == Built /\ pDraws.seed[2] % 256 # 0 /\ pArgs.timestamp # 0

\* the specified rotation of a 32-bit word
RefRotl32(w, n) ==
    LET x == Mask32(w) IN AddMask32(ShlMask32(x, n), ShrMask32(x, 32 - n))

\* the specified length fold, each word masked to 32 bits
FoldMasked(length) ==
    << Mask32(PyXor(HASH_IV[1], ToPy(length))),
       Mask32(PyXor(HASH_IV[2], PyShl(length, 8))),
       Mask32(PyXor(HASH_IV[3], PyShl(length, 16))),
       Mask32(PyXor(HASH_IV[4], PyShl(length, 24))) >>

\* one specified round on the words v0, v1 of a block: s0 and s1 are updated
\* first and the new values are used for s2 and s3
RefRound(s, v0, v1) ==
    LET n0 == RefRotl32(PyXor(AddMask32(s[1], v0), s[3]), 7)
        n1 == RefRotl32(AddMask32(PyXor(v0, s[2]), s[4]), 11)
        n2 == RefRotl32(PyXor(AddMask32(s[3], v1), n0), 13)
        n3 == RefRotl32(AddMask32(PyXor(s[4], v1), n1), 17)
    IN  <<n0, n1, n2, n3>>

\* the specified states: after the fold and after each 8-byte block
RECURSIVE RefStates(_, _, _)
RefStates(input, i, acc) ==
    IF 8 * i > Len(input) THEN acc
    ELSE RefStates(input, i + 1,
             Append(acc, RefRound(acc[Len(acc)],
                                  <<input[8 * i - 5] + 256 * input[8 * i - 4],
                                    input[8 * i - 7] + 256 * input[8 * i - 6]>>,
                                  <<input[8 * i - 1] + 256 * input[8 * i],
                                    input[8 * i - 3] + 256 * input[8 * i - 2]>>)))

WordBytes(w) == <<w[2] % 256, w[2] \div 256, w[1] % 256, w[1] \div 256>>

\* the digest mixer as specified
RefMixer(input) ==
    LET states == RefStates(input, 1, <<FoldMasked(Len(input))>>)
        s == states[Len(states)]
        t0 == PyXor(s[1], ToPy(Len(input)))
        t1 == PyXor(s[2], t0)
        t2 == AddMask32(s[3], t1)
        t3 == PyXor(s[4], t2)
        r0 == RefRotl32(t0, 9)
        r1 == RefRotl32(t1, 13)
        r2 == RefRotl32(t2, 17)
        r3 == RefRotl32(t3, 19)
        f0 == AddMask32(r0, r2)
        f1 == PyXor(r1, r3)
        f2 == AddMask32(r2, f0)
        f3 == PyXor(r3, f1)
    IN  WordBytes(f0) \o WordBytes(f1) \o WordBytes(f2) \o WordBytes(f3)

\* C7: for every input whose length is a multiple of 8 the digest mixer returns the
\* 16 bytes of the specified algorithm, and each of s0..s3 stays within
\* 0..2^32-1 after the length fold and after every block.
C7_MixerAsSpecified ==
    (hpc = "done" /\ Len(hIn) % 8 = 0) =>
        /\ hOut.status = "returned"
        /\ Len(hOut.value) = 16
        /\ \A k \in 1..Len(hOut.value) : hOut.value[k] \in 0..255
        /\ hOut.value = RefMixer(hIn)
        /\ \A k \in 1..Len(hTrace) : \A j \in 1..4 : InWord32(hTrace[k][j])

\* Below 256 bytes the length fold cannot leave 32 bits: there the mixer returns
\* the specified bytes and its words stay within 0..2^32-1.
MixerAsSpecifiedBelowFoldOverflow ==
    (hpc = "done" /\ Len(hIn) % 8 = 0 /\ Len(hIn) < 256) =>
        /\ hOut.value = RefMixer(hIn)
        /\ \A k \in 1..Len(hTrace) : \A j \in 1..4 : InWord32(hTrace[k][j])

\* C8: the identity field is one length byte and 52 bytes at offsets 44-96, the
\* app-id field one length byte and 10 bytes at offsets 97-107; each holds the
\* first bytes of the UTF-8 encoding, zero-padded, and the length byte of a value
\* longer than the field is the field's width.
C8_FieldTruncation ==
    Built =>
        LET a1 == Utf8Encode(pArgs.a1_value)
            app == Utf8Encode(pArgs.app_identifier)
        IN  /\ \A i \in 1..A1_LENGTH :
                  Payload[45 + i] = IF i <= Len(a1) THEN a1[i] ELSE 0
            /\ Len(a1) > A1_LENGTH => Payload[45] = A1_LENGTH
            /\ \A i \in 1..APP_ID_LENGTH :
                  Payload[98 + i] = IF i <= Len(app) THEN app[i] ELSE 0
            /\ Len(app) > APP_ID_LENGTH => Payload[98] = APP_ID_LENGTH
            /\ Payload[109] = 1

\* C8 witness: a payload was built from an identity of more than 52 bytes and an
\* app-id of more than 10 bytes.
C8_Witness ==
    /\ Built
    /\ Len(Utf8Encode(pArgs.a1_value)) > A1_LENGTH
    /\ Len(Utf8Encode(pArgs.app_identifier)) > APP_ID_LENGTH

\* C9: each call advances the counters first: the returned SignState equals the
\* live counters, window_props_length grew by 1..10 and sequence_value by 0..1,
\* uri_length is len(uri), the first snapshot is above the construction value, and
\* after n calls the counters lie in [15, 17+n] and [1000+n, 2000+10n].
C9_AdvanceThenSnapshot ==
    Len(returned) > 0 =>
        LET n == Len(returned)
            r == returned[n]
        IN  /\ r = <<sm.page_load_timestamp, sm.sequence_value, sm.window_props_length,
                     Len(lastCall.uri)>>
            /\ r[3] - lastCall.before.window_props_length \in 1..10
            /\ r[3] > lastCall.before.window_props_length
            /\ r[2] - lastCall.before.sequence_value \in 0..1
            /\ returned[1][3] > smInit.window_props_length
            /\ sm.sequence_value \in 15..(17 + n)
            /\ sm.window_props_length \in (1000 + n)..(2000 + 10 * n)

\* C9 witness: after two calls window_props_length is at the top of its range, and
\* the last uri has a character of more than one byte.
C9_Witness ==
    /\ Len(returned) = 2
    /\ sm.window_props_length = 2000 + 10 * 2
    /\ Len(Utf8Encode(lastCall.uri)) # Len(lastCall.uri)

AllDone == \A t \in Threads : th[t].pc = "done"

\* C10: two calls that do not overlap lose no increment and return strictly
\* increasing window_props_length; two calls that interleave can lose one and
\* return a snapshot not above an earlier one (the witness).
C10_SerializedIsSafe ==
    (AllDone /\ ~overlapped) =>
        /\ sm.sequence_value =
              smInit.sequence_value + th[1].seq_step + th[2].seq_step
        /\ sm.window_props_length =
              smInit.window_props_length + th[1].wpl_step + th[2].wpl_step
        /\ returned[2][3] > returned[1][3]
        /\ returned[2][2] >= returned[1][2]

\* C10 witness: both interleaved calls have returned, a window_props_length
\* increment is lost and the later snapshot is not above the earlier one.
C10_Witness ==
    /\ AllDone
    /\ overlapped
    /\ sm.window_props_length <
          smInit.window_props_length + th[1].wpl_step + th[2].wpl_step
    /\ returned[2][3] <= returned[1][3]

=============================================================================
